---------------------------- MODULE Spec2Model ----------------------------
(***************************************************************************)
(* Stock ledger of the warehouse inventory tracker.                        *)
(*                                                                         *)
(* The model follows backend/routes/index.js: the receipts and deliveries  *)
(* tables with their item tables, the products.stock column, and the       *)
(* handlers that create, update, validate and delete documents.            *)
(*                                                                         *)
(* Spec        runs the receipts API one request at a time (each handler   *)
(*             is one transaction, modelled as one step).                  *)
(* SpecLedger  create, update and validate of receipts and deliveries.     *)
(* SpecAll     SpecLedger with the two delete routes.                      *)
(* SpecTx      two validate requests run concurrently, one SQL statement   *)
(*             per step, on a store with PostgreSQL's default READ         *)
(*             COMMITTED isolation (BEGIN names no isolation level).       *)
(* SpecEdit    create, update and delete where an INSERT may throw.        *)
(* SpecCodes   create and delete alone, to follow the document codes.      *)
(* SpecTxCreate two create requests run concurrently.                      *)
(* SpecTxEdit  validate and update requests run concurrently.              *)
(* SpecForm    the line form of frontend/src/pages/Deliveries.jsx.         *)
(* SpecSubmit  the same form with its header fields and its submit.        *)
(* SpecTxTwo   validates of different receipts run concurrently.           *)
(* SpecTxEnd   validate, update and create requests run concurrently,      *)
(*             any query may throw; each handler's next statement is       *)
(*             weakly fair.                                                *)
(***************************************************************************)
EXTENDS Integers, Sequences, FiniteSets, TLC

(* ------------------------------ bounds --------------------------------- *)
\* serial ids handed out per document table
MaxId == 1
\* lines per document in a request body
MaxLines == 2
\* lines per request body where both APIs run together
MaxShortLines == 1
\* serial ids handed out per document table where codes are followed
MaxCodeId == 3
\* largest product stock the delivery form is opened on
MaxFormStock == 2
\* validations are explored while every stock stays in -MaxDebt..MaxStock
MaxStock == 4
MaxDebt == 1
\* stock of every product before the first document operation
InitialStock == 0

Products == {1, 2}
\* req.body.items[].quantity is not checked by the routes: any number passes
Quantities == {-1, 2}
Statuses == {"draft", "waiting", "ready", "done", "canceled"}
Procs == {1, 2}

Items == [productId : Products, quantity : Quantities]
LineSets == UNION {[1..n -> Items] : n \in 0..MaxLines}
ShortLineSets == UNION {[1..n -> Items] : n \in 0..MaxShortLines}

VARIABLES
    stock,            \* products.stock, by product id
    receipts,         \* receipts rows by id: [receiptId, status]
    receipt_items,    \* receipt_items rows of each receipt, in insertion order
    deliveries,       \* deliveries rows by id: [deliveryId, status]
    delivery_items,   \* delivery_items rows of each delivery
    nextReceiptId,    \* serial of receipts.id
    nextDeliveryId,   \* serial of deliveries.id
    lastOp,           \* the request handled by the last step and its response
    tx,               \* per request process: the open transaction (SpecTx)
    form              \* the delivery form of Deliveries.jsx (SpecForm)

dbVars == <<stock, receipts, receipt_items, deliveries, delivery_items,
            nextReceiptId, nextDeliveryId>>
vars == <<stock, receipts, receipt_items, deliveries, delivery_items,
          nextReceiptId, nextDeliveryId, lastOp, tx, form>>

(* ------------------------------ helpers -------------------------------- *)
RECURSIVE Digits(_)
Digits(n) == IF n < 10 THEN <<n>> ELSE Digits(n \div 10) \o <<n % 10>>

RECURSIVE PadStart(_, _, _)
\* String.prototype.padStart(width, fill) on a sequence of characters
PadStart(s, width, fill) ==
    IF Len(s) >= width THEN s ELSE PadStart(<<fill>> \o s, width, fill)

\* a receipt code numbered with the row count itself
ReceiptCodeFromZero(count) == [prefix |-> "RCP-", digits |-> PadStart(Digits(count), 3, 0)]

\* `RCP-${String(receiptNumber).padStart(3, '0')}`
ReceiptCode(count) == [prefix |-> "RCP-", digits |-> PadStart(Digits(count + 1), 3, 0)]
\* `DEL-${String(deliveryNumber).padStart(3, '0')}`
DeliveryCode(count) == [prefix |-> "DEL-", digits |-> PadStart(Digits(count + 1), 3, 0)]

\* a stock update that stores the quantity instead of adding it
UpdateStockOverwrite(s, item) ==
    IF item.productId \in DOMAIN s
    THEN [s EXCEPT ![item.productId] = item.quantity]
    ELSE s

\* UPDATE products SET stock = stock + $1 WHERE id = $2
UpdateStock(s, item) ==
    IF item.productId \in DOMAIN s
    THEN [s EXCEPT ![item.productId] = @ + item.quantity]
    ELSE s

RECURSIVE ApplyItems(_, _, _)
\* the loop over itemsResult.rows, run for its first n rows
ApplyItems(s, rows, n) ==
    IF n = 0 THEN s ELSE UpdateStock(ApplyItems(s, rows, n - 1), rows[n])

\* a rollback that leaves the statements already run in place
RollbackKeepsWork(atBegin, working) == working

\* ROLLBACK: the store returns to its contents at BEGIN
Rollback(atBegin, working) == atBegin

\* a status test that never recognises a validated receipt
AlreadyValidatedNever(receipt) == FALSE

\* a status test that also turns a canceled receipt away
AlreadyValidatedOrCanceled(receipt) == receipt.status \in {"done", "canceled"}

\* if (receipt.status === 'done')
AlreadyValidated(receipt) == receipt.status = "done"

\* a header update that also writes a code column
SetHeaderAndCode(row, status) ==
    [f \in DOMAIN row |-> IF f = "status" THEN status ELSE ReceiptCode(1)]

\* UPDATE receipts SET supplier = $1, date = $2, status = $3 WHERE id = $4:
\* of the columns the model keeps, status is written and the code is not
SetHeader(row, status) == [row EXCEPT !.status = status]

Op(op, id, result, failedAt) ==
    [op |-> op, id |-> id, result |-> result, failedAt |-> failedAt]

RECURSIVE InsertItems(_, _, _)
\* the loop of INSERT INTO receipt_items / delivery_items, run for the
\* first n items of the request
InsertItems(rows, items, n) ==
    IF n = 0 THEN rows ELSE Append(InsertItems(rows, items, n - 1), items[n])

\* an edit that leaves the old item rows in place
DeleteItemsNone(rows) == rows

\* DELETE FROM receipt_items WHERE receipt_id = $1 (delivery_items alike)
DeleteItems(rows) == <<>>

RECURSIVE TotalItems(_)
\* let totalItems = 0; for (...) totalItems += item.quantity
TotalItems(items) ==
    IF items = <<>> THEN 0 ELSE items[1].quantity + TotalItems(Tail(items))

\* the body of the 201 / 200 response of create and update
Created(op, id, items) ==
    Op(op, id, "ok", 0) @@ [items |-> items, totalItems |-> TotalItems(items)]

\* DELETE ... WHERE id = $1 on a table held as a function of id
DeleteRow(table, id) == [i \in DOMAIN table \ {id} |-> table[i]]

RECURSIVE SumQuantity(_, _)
\* sum of the quantities of the rows of one product
SumQuantity(rows, p) ==
    IF rows = <<>> THEN 0
    ELSE (IF rows[1].productId = p THEN rows[1].quantity ELSE 0)
         + SumQuantity(Tail(rows), p)

InRange(s) == \A p \in DOMAIN s : s[p] >= -MaxDebt /\ s[p] <= MaxStock

\* a request process with no transaction open: pc is its place in the
\* handler, rows and i the item rows it read and its place in the loop,
\* wrote/stockW and statusW the uncommitted writes of its transaction
NoTx == [pc |-> "idle", id |-> 0, rows |-> <<>>, i |-> 0,
         wrote |-> {}, stockW |-> [p \in Products |-> 0],
         statusW |-> FALSE, result |-> "none",
         table |-> "none", req |-> [status |-> "draft", items |-> <<>>],
         count |-> 0, op |-> "none", ends |-> 0, released |-> 0]

\* new Date().toISOString().split('T')[0]
Today == "today"

\* the form as useState leaves it: no lines, today's date, nothing typed, no
\* error, no delivery selected, and none handed to addDelivery / updateDelivery
NoForm == [items |-> <<>>, productId |-> "", quantity |-> "", error |-> "",
           customer |-> "", date |-> Today, errors |-> {}, sent |-> "none",
           selected |-> 0]

(* --------------------------- initial state ----------------------------- *)
Init ==
    /\ stock = [p \in Products |-> InitialStock]
    /\ receipts = <<>>
    /\ receipt_items = <<>>
    /\ deliveries = <<>>
    /\ delivery_items = <<>>
    /\ nextReceiptId = 1
    /\ nextDeliveryId = 1
    /\ lastOp = Op("none", 0, "none", 0)
    /\ tx = [c \in Procs |-> NoTx]
    /\ form = NoForm

(* --------------------------- receipts API ------------------------------ *)
\* the transaction of router.post('/receipts'); failAt = k > 0: the k-th
\* INSERT INTO receipt_items throws and the catch block issues ROLLBACK
PostReceipt(status, items, failAt) ==
    LET id == nextReceiptId
        row == [receiptId |-> ReceiptCode(Cardinality(DOMAIN receipts)),
                status |-> status]
        n == IF failAt > 0 THEN failAt - 1 ELSE Len(items)
        header == (id :> row) @@ receipts
        lines == (id :> InsertItems(<<>>, items, n)) @@ receipt_items
    IN /\ failAt <= Len(items)
       /\ IF failAt > 0
          THEN /\ receipts' = Rollback(receipts, header)
               /\ receipt_items' = Rollback(receipt_items, lines)
               /\ lastOp' = Op("createReceipt", 0, "Failed", failAt)
               /\ UNCHANGED nextReceiptId
          ELSE /\ receipts' = header
               /\ receipt_items' = lines
               /\ nextReceiptId' = nextReceiptId + 1
               /\ lastOp' = Created("createReceipt", id, items)
       /\ UNCHANGED <<stock, deliveries, delivery_items, nextDeliveryId, tx, form>>

\* router.post('/receipts')
CreateReceipt(status, items) ==
    /\ nextReceiptId <= MaxId
    /\ PostReceipt(status, items, 0)

\* the transaction of router.put('/receipts/:id'); failAt = k > 0: the k-th
\* INSERT INTO receipt_items throws and the catch block issues ROLLBACK
PutReceipt(id, status, items, failAt) ==
    /\ IF id \notin DOMAIN receipts
       THEN /\ failAt = 0
            /\ lastOp' = Op("updateReceipt", id, "NotFound", 0)
            /\ UNCHANGED <<receipts, receipt_items>>
       ELSE LET n == IF failAt > 0 THEN failAt - 1 ELSE Len(items)
                header == [receipts EXCEPT ![id] = SetHeader(@, status)]
                lines == [receipt_items EXCEPT
                            ![id] = InsertItems(DeleteItems(@), items, n)]
            IN /\ failAt <= Len(items)
               /\ IF failAt > 0
                  THEN /\ receipts' = Rollback(receipts, header)
                       /\ receipt_items' = Rollback(receipt_items, lines)
                       /\ lastOp' = Op("updateReceipt", id, "Failed", failAt)
                  ELSE /\ receipts' = header
                       /\ receipt_items' = lines
                       /\ lastOp' = Created("updateReceipt", id, items)
    /\ UNCHANGED <<stock, deliveries, delivery_items, nextReceiptId, nextDeliveryId, tx, form>>

\* router.put('/receipts/:id')
UpdateReceipt(id, status, items) == PutReceipt(id, status, items, 0)

\* router.post('/receipts/:id/validate'); failAt = k > 0: the k-th UPDATE
\* of the handler throws (the k-th UPDATE products, or the UPDATE receipts
\* after the last of them) and the catch block issues ROLLBACK
ValidateReceipt(id, failAt) ==
    /\ IF id \notin DOMAIN receipts
       THEN /\ failAt = 0
            /\ lastOp' = Op("validateReceipt", id, "NotFound", 0)
            /\ UNCHANGED <<stock, receipts>>
       ELSE IF AlreadyValidated(receipts[id])
       THEN /\ failAt = 0
            /\ lastOp' = Op("validateReceipt", id, "AlreadyValidated", 0)
            /\ UNCHANGED <<stock, receipts>>
       ELSE IF failAt > 0
       THEN /\ failAt <= Len(receipt_items[id]) + 1
            /\ stock' = Rollback(stock, ApplyItems(stock, receipt_items[id], failAt - 1))
            /\ lastOp' = Op("validateReceipt", id, "Failed", failAt)
            /\ UNCHANGED receipts
       ELSE /\ InRange(ApplyItems(stock, receipt_items[id], Len(receipt_items[id])))
            /\ stock' = ApplyItems(stock, receipt_items[id], Len(receipt_items[id]))
            /\ receipts' = [receipts EXCEPT ![id].status = "done"]
            /\ lastOp' = Op("validateReceipt", id, "ok", 0)
                          @@ [was |-> receipts[id].status]
    /\ UNCHANGED <<receipt_items, deliveries, delivery_items,
                   nextReceiptId, nextDeliveryId, tx, form>>

\* a delete that takes a validated receipt's quantities back out of stock
DeleteReceiptReversing(id) ==
    /\ IF id \notin DOMAIN receipts
       THEN /\ lastOp' = Op("deleteReceipt", id, "NotFound", 0)
            /\ UNCHANGED <<stock, receipts, receipt_items>>
       ELSE /\ receipts' = DeleteRow(receipts, id)
            /\ receipt_items' = DeleteRow(receipt_items, id)
            /\ stock' = IF receipts[id].status = "done"
                        THEN [p \in Products |->
                                stock[p] - SumQuantity(receipt_items[id], p)]
                        ELSE stock
            /\ lastOp' = Op("deleteReceipt", id, "ok", 0)
    /\ UNCHANGED <<deliveries, delivery_items, nextReceiptId, nextDeliveryId, tx, form>>

\* router.delete('/receipts/:id'); the item rows go with their receipt
DeleteReceipt(id) ==
    /\ IF id \notin DOMAIN receipts
       THEN /\ lastOp' = Op("deleteReceipt", id, "NotFound", 0)
            /\ UNCHANGED <<receipts, receipt_items>>
       ELSE /\ receipts' = DeleteRow(receipts, id)
            /\ receipt_items' = DeleteRow(receipt_items, id)
            /\ lastOp' = Op("deleteReceipt", id, "ok", 0)
    /\ UNCHANGED <<stock, deliveries, delivery_items, nextReceiptId, nextDeliveryId, tx, form>>

(* -------------------------- deliveries API ----------------------------- *)
\* the transaction of router.post('/deliveries'); failAt = k > 0: the k-th
\* INSERT INTO delivery_items throws and the catch block issues ROLLBACK
PostDelivery(status, items, failAt) ==
    LET id == nextDeliveryId
        row == [deliveryId |-> DeliveryCode(Cardinality(DOMAIN deliveries)),
                status |-> status]
        n == IF failAt > 0 THEN failAt - 1 ELSE Len(items)
        header == (id :> row) @@ deliveries
        lines == (id :> InsertItems(<<>>, items, n)) @@ delivery_items
    IN /\ failAt <= Len(items)
       /\ IF failAt > 0
          THEN /\ deliveries' = Rollback(deliveries, header)
               /\ delivery_items' = Rollback(delivery_items, lines)
               /\ lastOp' = Op("createDelivery", 0, "Failed", failAt)
               /\ UNCHANGED nextDeliveryId
          ELSE /\ deliveries' = header
               /\ delivery_items' = lines
               /\ nextDeliveryId' = nextDeliveryId + 1
               /\ lastOp' = Created("createDelivery", id, items)
       /\ UNCHANGED <<stock, receipts, receipt_items, nextReceiptId, tx, form>>

\* router.post('/deliveries')
CreateDelivery(status, items) ==
    /\ nextDeliveryId <= MaxId
    /\ PostDelivery(status, items, 0)

\* a PUT that inserts the row it did not find
PutDeliveryUpsert(id, status, items, failAt) ==
    /\ failAt = 0
    /\ deliveries' = (id :> [deliveryId |-> DeliveryCode(Cardinality(DOMAIN deliveries)),
                             status |-> status]) @@ deliveries
    /\ delivery_items' = (id :> items) @@ delivery_items
    /\ lastOp' = Created("updateDelivery", id, items)
    /\ UNCHANGED <<stock, receipts, receipt_items, nextReceiptId, nextDeliveryId, tx, form>>

\* the transaction of router.put('/deliveries/:id'); failAt = k > 0: the
\* k-th INSERT INTO delivery_items throws and the catch block issues ROLLBACK
PutDelivery(id, status, items, failAt) ==
    /\ IF id \notin DOMAIN deliveries
       THEN /\ failAt = 0
            /\ lastOp' = Op("updateDelivery", id, "NotFound", 0)
            /\ UNCHANGED <<deliveries, delivery_items>>
       ELSE LET n == IF failAt > 0 THEN failAt - 1 ELSE Len(items)
                header == [deliveries EXCEPT ![id] = SetHeader(@, status)]
                lines == [delivery_items EXCEPT
                            ![id] = InsertItems(DeleteItems(@), items, n)]
            IN /\ failAt <= Len(items)
               /\ IF failAt > 0
                  THEN /\ deliveries' = Rollback(deliveries, header)
                       /\ delivery_items' = Rollback(delivery_items, lines)
                       /\ lastOp' = Op("updateDelivery", id, "Failed", failAt)
                  ELSE /\ deliveries' = header
                       /\ delivery_items' = lines
                       /\ lastOp' = Created("updateDelivery", id, items)
    /\ UNCHANGED <<stock, receipts, receipt_items, nextReceiptId, nextDeliveryId, tx, form>>

\* router.put('/deliveries/:id')
UpdateDelivery(id, status, items) == PutDelivery(id, status, items, 0)

\* POST /deliveries/:id/validate: the router registers get, post, put and
\* delete for deliveries and no validate route, so the request matches no
\* handler and is answered 404 by the framework without touching the store
ValidateDelivery(id) ==
    /\ lastOp' = Op("validateDelivery", id, "NoRoute", 0)
    /\ UNCHANGED <<stock, receipts, receipt_items, deliveries, delivery_items,
                   nextReceiptId, nextDeliveryId, tx, form>>

\* router.delete('/deliveries/:id'); the item rows go with their delivery
DeleteDelivery(id) ==
    /\ IF id \notin DOMAIN deliveries
       THEN /\ lastOp' = Op("deleteDelivery", id, "NotFound", 0)
            /\ UNCHANGED <<deliveries, delivery_items>>
       ELSE /\ deliveries' = DeleteRow(deliveries, id)
            /\ delivery_items' = DeleteRow(delivery_items, id)
            /\ lastOp' = Op("deleteDelivery", id, "ok", 0)
    /\ UNCHANGED <<stock, receipts, receipt_items, nextReceiptId, nextDeliveryId, tx, form>>

(* --------------------------- specification ----------------------------- *)
Ids == 1..MaxId

\* the receipts API, one request at a time
Next ==
    \/ \E st \in Statuses, items \in LineSets : CreateReceipt(st, items)
    \/ \E id \in Ids, st \in Statuses, items \in LineSets : UpdateReceipt(id, st, items)
    \/ \E id \in Ids, k \in 0..(MaxLines + 1) : ValidateReceipt(id, k)
    \/ \E id \in Ids : DeleteReceipt(id)

Spec == Init /\ [][Next]_vars

\* create, update and validate of both APIs, one request at a time, with
\* request bodies of at most MaxShortLines lines
NextLedger ==
    \/ \E st \in Statuses, items \in ShortLineSets : CreateReceipt(st, items)
    \/ \E id \in Ids, st \in Statuses, items \in ShortLineSets : UpdateReceipt(id, st, items)
    \/ \E id \in Ids, k \in 0..(MaxShortLines + 1) : ValidateReceipt(id, k)
    \/ \E st \in Statuses, items \in ShortLineSets : CreateDelivery(st, items)
    \/ \E id \in Ids, st \in Statuses, items \in ShortLineSets : UpdateDelivery(id, st, items)
    \/ \E id \in Ids : ValidateDelivery(id)

SpecLedger == Init /\ [][NextLedger]_vars

\* the same with the two delete routes
NextAll ==
    \/ NextLedger
    \/ \E id \in Ids : DeleteReceipt(id)
    \/ \E id \in Ids : DeleteDelivery(id)

SpecAll == Init /\ [][NextAll]_vars

\* the statuses of the requests of SpecEdit
EditStatuses == {"draft", "done"}

\* create, update and delete of both APIs, one request at a time, where an
\* INSERT of an item row may throw
NextEdit ==
    \/ \E st \in EditStatuses, items \in LineSets, k \in 0..MaxLines :
          nextReceiptId <= MaxId /\ PostReceipt(st, items, k)
    \/ \E id \in Ids, st \in EditStatuses, items \in LineSets, k \in 0..MaxLines :
          PutReceipt(id, st, items, k)
    \/ \E id \in Ids : DeleteReceipt(id)
    \/ \E st \in EditStatuses, items \in LineSets, k \in 0..MaxLines :
          nextDeliveryId <= MaxId /\ PostDelivery(st, items, k)
    \/ \E id \in Ids, st \in EditStatuses, items \in LineSets, k \in 0..MaxLines :
          PutDelivery(id, st, items, k)
    \/ \E id \in Ids : DeleteDelivery(id)

SpecEdit == Init /\ [][NextEdit]_vars

\* create and delete of both APIs, one request at a time, the requests
\* naming no status ('draft' is stored) and carrying no items
NextCodes ==
    \/ nextReceiptId <= MaxCodeId /\ PostReceipt("draft", <<>>, 0)
    \/ \E id \in 1..MaxCodeId : DeleteReceipt(id)
    \/ nextDeliveryId <= MaxCodeId /\ PostDelivery("draft", <<>>, 0)
    \/ \E id \in 1..MaxCodeId : DeleteDelivery(id)

SpecCodes == Init /\ [][NextCodes]_vars

(* ------------- concurrent validate requests (SpecTx) ------------------- *)
\* The store gives each statement the last committed rows plus the
\* transaction's own writes; an UPDATE locks the row it writes until the
\* transaction ends, and an UPDATE of a row locked by another transaction
\* waits for that transaction and then works on the row it committed.

\* a receipt exists before the two requests arrive
InitTx ==
    /\ stock = [p \in Products |-> InitialStock]
    /\ \E st \in Statuses, items \in LineSets :
          /\ receipts = (1 :> [receiptId |-> ReceiptCode(0), status |-> st])
          /\ receipt_items = (1 :> items)
    /\ deliveries = <<>>
    /\ delivery_items = <<>>
    /\ nextReceiptId = 2
    /\ nextDeliveryId = 1
    /\ lastOp = Op("none", 0, "none", 0)
    /\ tx = [c \in Procs |-> NoTx]
    /\ form = NoForm

\* a handler path that issues neither COMMIT nor ROLLBACK
EndedNever(t) == t

\* await client.query('COMMIT') / await client.query('ROLLBACK') has ended
\* the transaction
Ended(t) == [t EXCEPT !.ends = @ + 1]

\* finally { client.release() }, after which the request is answered
Released(t) == [t EXCEPT !.released = @ + 1, !.pc = "done"]

\* a store whose UPDATE takes no row lock
LockedByNone(c) == {}

\* product rows locked by the transactions of the other processes
LockedByOthers(c) == UNION {tx[d].wrote : d \in Procs \ {c}}

\* const client = await pool.connect(); await client.query('BEGIN')
TxBegin(c, id) ==
    /\ tx[c].pc = "idle"
    /\ tx' = [tx EXCEPT ![c] = [NoTx EXCEPT !.pc = "selectReceipt", !.id = id,
                                            !.op = "validate"]]
    /\ UNCHANGED <<dbVars, lastOp, form>>

\* SELECT * FROM receipts WHERE id = $1, and the two early returns on it
SelectReceipt(c) ==
    /\ tx[c].pc = "selectReceipt"
    /\ tx' = [tx EXCEPT ![c] =
                IF tx[c].id \notin DOMAIN receipts
                THEN [@ EXCEPT !.pc = "rollback", !.result = "NotFound"]
                ELSE IF AlreadyValidated(receipts[tx[c].id])
                THEN [@ EXCEPT !.pc = "rollback", !.result = "AlreadyValidated"]
                ELSE [@ EXCEPT !.pc = "selectItems"]]
    /\ UNCHANGED <<dbVars, lastOp, form>>

\* SELECT product_id, quantity FROM receipt_items WHERE receipt_id = $1
SelectItems(c) ==
    /\ tx[c].pc = "selectItems"
    /\ LET rows == IF tx[c].id \in DOMAIN receipt_items
                   THEN receipt_items[tx[c].id] ELSE <<>>
       IN tx' = [tx EXCEPT ![c] =
                   [@ EXCEPT !.rows = rows, !.i = 1,
                             !.pc = IF rows = <<>> THEN "updateStatus"
                                    ELSE "updateStock"]]
    /\ UNCHANGED <<dbVars, lastOp, form>>

\* one pass of the loop: UPDATE products SET stock = stock + $1 WHERE id = $2
UpdateProductStock(c) ==
    /\ tx[c].pc = "updateStock"
    /\ LET item == tx[c].rows[tx[c].i]
           p == item.productId
           seen == IF p \in tx[c].wrote THEN tx[c].stockW ELSE stock
       IN /\ p \notin LockedByOthers(c)
          /\ tx' = [tx EXCEPT ![c] =
                      [@ EXCEPT !.wrote = @ \cup {p},
                                !.stockW[p] = UpdateStock(seen, item)[p],
                                !.i = @ + 1,
                                !.pc = IF tx[c].i = Len(tx[c].rows)
                                       THEN "updateStatus" ELSE "updateStock"]]
    /\ UNCHANGED <<dbVars, lastOp, form>>

\* UPDATE receipts SET status = 'done' WHERE id = $2
UpdateReceiptStatus(c) ==
    /\ tx[c].pc = "updateStatus"
    /\ \A d \in Procs \ {c} : ~(tx[d].statusW /\ tx[d].id = tx[c].id)
    /\ tx' = [tx EXCEPT ![c] = [@ EXCEPT !.statusW = TRUE, !.pc = "commit"]]
    /\ UNCHANGED <<dbVars, lastOp, form>>

\* COMMIT, then res.json({ message: ..., status: 'done' }) and client.release()
Commit(c) ==
    /\ tx[c].pc = "commit"
    /\ stock' = [p \in Products |->
                  IF p \in tx[c].wrote THEN tx[c].stockW[p] ELSE stock[p]]
    /\ receipts' = IF tx[c].statusW /\ tx[c].id \in DOMAIN receipts
                   THEN [receipts EXCEPT ![tx[c].id].status = "done"]
                   ELSE receipts
    /\ tx' = [tx EXCEPT ![c] = Released(Ended([@ EXCEPT !.result = "ok",
                                         !.wrote = {}, !.statusW = FALSE]))]
    /\ UNCHANGED <<receipt_items, deliveries, delivery_items,
                   nextReceiptId, nextDeliveryId, lastOp, form>>

\* ROLLBACK before an early return, then the 404 / 400 response; ROLLBACK
\* in the catch block, then the 500 response
RollbackTx(c) ==
    /\ tx[c].pc = "rollback"
    /\ tx' = [tx EXCEPT ![c] = Released(Ended([@ EXCEPT !.wrote = {},
                                                        !.statusW = FALSE]))]
    /\ UNCHANGED <<dbVars, lastOp, form>>

NextTx ==
    \/ \E c \in Procs, id \in 1..(MaxId + 1) : TxBegin(c, id)
    \/ \E c \in Procs : SelectReceipt(c)
    \/ \E c \in Procs : SelectItems(c)
    \/ \E c \in Procs : UpdateProductStock(c)
    \/ \E c \in Procs : UpdateReceiptStatus(c)
    \/ \E c \in Procs : Commit(c)
    \/ \E c \in Procs : RollbackTx(c)

SpecTx == InitTx /\ [][NextTx]_vars

(* ------------------- claims on the receipts API (Spec) ----------------- *)

\* C1: when a validate of a receipt has just succeeded and the next request
\* is a validate of the same receipt, that second call answers "already
\* validated", changes no stock, and the receipt stays 'done'.
C1_SecondValidateRejected ==
    [][(/\ lastOp.op = "validateReceipt" /\ lastOp.result = "ok"
        /\ lastOp'.op = "validateReceipt" /\ lastOp'.id = lastOp.id)
       => (/\ lastOp'.result = "AlreadyValidated"
           /\ stock' = stock
           /\ lastOp.id \in DOMAIN receipts'
           /\ receipts'[lastOp.id].status = "done")]_vars

\* a second validate was answered "already validated" for a receipt whose
\* lines move the stock of product 1
C1_Witness ==
    /\ lastOp.op = "validateReceipt" /\ lastOp.result = "AlreadyValidated"
    /\ SumQuantity(receipt_items[lastOp.id], 1) # 0
    /\ stock[1] = InitialStock + SumQuantity(receipt_items[lastOp.id], 1)

\* C2: the stock of every product is >= 0 in every reachable state.
C2_StockNonNegative == \A p \in Products : stock[p] >= 0

\* C3: a receipt whose status is 'done' keeps that status for as long as it
\* exists, whatever request comes next.
C3_DoneIsTerminal ==
    [][\A id \in DOMAIN receipts :
          (receipts[id].status = "done" /\ id \in DOMAIN receipts')
          => receipts'[id].status = "done"]_vars

\* C5: a validate that fails at its k-th UPDATE leaves the stock of every
\* product and the receipt's row as they were before the call.
C5_FailedValidateRollsBack ==
    [][(lastOp'.op = "validateReceipt" /\ lastOp'.result = "Failed")
       => (stock' = stock /\ receipts' = receipts /\ receipt_items' = receipt_items
           /\ receipts[lastOp'.id].status # "done")]_vars

\* a validate failed at line 2 or later of a receipt whose first line moves stock
C5_Witness ==
    /\ lastOp.op = "validateReceipt" /\ lastOp.result = "Failed"
    /\ lastOp.failedAt >= 2
    /\ lastOp.failedAt <= Len(receipt_items[lastOp.id])
    /\ receipts[lastOp.id].status # "done"

\* C6: a successful validate of a receipt adds to each product's stock the
\* sum of the quantities of the receipt's lines for that product (so no
\* stock moves for a product without lines) and sets the status to 'done'.
C6_ValidateAddsLineSums ==
    [][(lastOp'.op = "validateReceipt" /\ lastOp'.result = "ok")
       => (/\ \A p \in Products :
                 stock'[p] = stock[p] + SumQuantity(receipt_items[lastOp'.id], p)
           /\ receipts'[lastOp'.id].status = "done"
           /\ receipts[lastOp'.id].status # "done")]_vars

\* a receipt with two lines for product 1 and none for product 2 was validated
C6_Witness ==
    /\ lastOp.op = "validateReceipt" /\ lastOp.result = "ok"
    /\ Len(receipt_items[lastOp.id]) = 2
    /\ \A n \in 1..2 : receipt_items[lastOp.id][n].productId = 1
    /\ receipts[lastOp.id].status = "done"
    /\ stock[1] = InitialStock + SumQuantity(receipt_items[lastOp.id], 1)
    /\ stock[1] # InitialStock

\* C4: when two validate requests for the same receipt (one with lines, not
\* 'done' before either began) have both been answered, the receipt's line
\* sums have been added to stock once and at most one of the two reported
\* success.
C4_ConcurrentValidateOnce ==
    (/\ \A c \in Procs : tx[c].pc = "done" /\ tx[c].id = 1
     /\ \E c \in Procs : tx[c].result = "ok"
     /\ receipt_items[1] # <<>>)
    => (/\ \A p \in Products :
              stock[p] = InitialStock + SumQuantity(receipt_items[1], p)
        /\ \E c \in Procs : tx[c].result # "ok")

\* C18: validate of an existing receipt is turned away exactly when the
\* receipt is 'done'; from draft, waiting, ready and canceled alike, unless a
\* statement fails, it adds the receipt's line quantities to stock and sets
\* the status to 'done'.
C18_ValidateFromAnyOpenStatus ==
    [][(lastOp'.op = "validateReceipt" /\ lastOp'.id \in DOMAIN receipts)
       => /\ lastOp'.result = "AlreadyValidated"
             <=> receipts[lastOp'.id].status = "done"
          /\ (receipts[lastOp'.id].status # "done" /\ lastOp'.result # "Failed")
             => /\ lastOp'.result = "ok"
                /\ receipts'[lastOp'.id].status = "done"
                /\ \A p \in Products :
                      stock'[p] = stock[p]
                                  + SumQuantity(receipt_items[lastOp'.id], p)]_vars

\* a canceled receipt with lines was validated
C18_Witness ==
    /\ lastOp.op = "validateReceipt" /\ lastOp.result = "ok"
    /\ lastOp.was = "canceled"
    /\ receipts[lastOp.id].status = "done"
    /\ receipt_items[lastOp.id] # <<>>

(* --------------- claims on both APIs (SpecLedger, SpecAll) ------------- *)
RECURSIVE DoneQuantity(_, _, _, _)
\* sum, over the documents of ids whose status is 'done', of the quantities
\* of their lines for product p
DoneQuantity(ids, table, items, p) ==
    IF ids = {} THEN 0
    ELSE LET id == CHOOSE i \in ids : TRUE
         IN (IF table[id].status = "done" THEN SumQuantity(items[id], p) ELSE 0)
            + DoneQuantity(ids \ {id}, table, items, p)

\* every line of the delivery is covered by current stock
Covered(id) == \A p \in Products : SumQuantity(delivery_items[id], p) <= stock[p]

\* C7: a validate request for a delivery that is not 'done' and whose lines
\* are covered by stock subtracts the line sums from stock and sets the
\* delivery's status to 'done'.
C7_DeliveryValidateSubtracts ==
    [][(/\ lastOp'.op = "validateDelivery"
        /\ lastOp'.id \in DOMAIN deliveries
        /\ deliveries[lastOp'.id].status # "done"
        /\ Covered(lastOp'.id))
       => (/\ \A p \in Products :
                 stock'[p] = stock[p] - SumQuantity(delivery_items[lastOp'.id], p)
           /\ deliveries'[lastOp'.id].status = "done")]_vars

\* C8: a validate request for a delivery that asks more of some product than
\* its stock fails with InsufficientStock, changes no stock and leaves the
\* delivery as it was.
C8_DeliveryValidateInsufficient ==
    [][(/\ lastOp'.op = "validateDelivery"
        /\ lastOp'.id \in DOMAIN deliveries
        /\ deliveries[lastOp'.id].status # "done"
        /\ ~Covered(lastOp'.id))
       => (/\ lastOp'.result = "InsufficientStock"
           /\ stock' = stock
           /\ deliveries' = deliveries)]_vars

\* C9: each product's stock is its initial stock plus the quantities of its
\* lines in 'done' receipts minus those of its lines in 'done' deliveries.
C9_StockIsNetOfDoneDocuments ==
    \A p \in Products :
        stock[p] = InitialStock
                   + DoneQuantity(DOMAIN receipts, receipts, receipt_items, p)
                   - DoneQuantity(DOMAIN deliveries, deliveries, delivery_items, p)

DocumentEdits == {"createReceipt", "updateReceipt", "deleteReceipt",
                  "createDelivery", "updateDelivery", "deleteDelivery"}

\* C10: create, update and delete of a receipt or a delivery leave every
\* product's stock unchanged, whatever the document's status; a step that
\* changes stock is a validate.
C10_OnlyValidateMovesStock ==
    [][/\ (lastOp'.op \in DocumentEdits => stock' = stock)
       /\ (stock' # stock => lastOp'.op = "validateReceipt")]_vars

\* a receipt was deleted and the stock it added when validated is still there
C10_Witness ==
    /\ lastOp.op = "deleteReceipt" /\ lastOp.result = "ok"
    /\ DOMAIN receipts = {}
    /\ stock[1] > InitialStock

\* the documents a request of the given kind looks its id up in
TableOf(op) == IF op \in {"validateReceipt", "updateReceipt", "deleteReceipt"}
               THEN receipts ELSE deliveries

\* C19: validate, update and delete of an id that no document of the table
\* has answer NotFound and leave headers, lines and stock as they were (the
\* deliveries API has no validate route, and answers that request with the
\* router's 404).
C19_UnknownIdNotFound ==
    [][(/\ lastOp'.op \in {"validateReceipt", "updateReceipt", "deleteReceipt",
                           "validateDelivery", "updateDelivery", "deleteDelivery"}
        /\ lastOp'.id \notin DOMAIN TableOf(lastOp'.op))
       => /\ lastOp'.result = IF lastOp'.op = "validateDelivery"
                              THEN "NoRoute" ELSE "NotFound"
          /\ UNCHANGED dbVars]_vars

\* an update of a delivery that does not exist was answered NotFound while a
\* validated receipt and its stock were there to be kept
C19_Witness ==
    /\ lastOp.op = "updateDelivery" /\ lastOp.result = "NotFound"
    /\ deliveries = <<>>
    /\ \E id \in DOMAIN receipts : receipts[id].status = "done"
    /\ \E p \in Products : stock[p] # InitialStock

\* C21: the code a document got when it was created is the code it has as
\* long as it exists: no update, validate or other request changes the code
\* of a document that is there before and after it.
C21_CodeNeverChanges ==
    [][/\ \A id \in DOMAIN receipts \cap DOMAIN receipts' :
             receipts'[id].receiptId = receipts[id].receiptId
       /\ \A id \in DOMAIN deliveries \cap DOMAIN deliveries' :
             deliveries'[id].deliveryId = deliveries[id].deliveryId]_vars

\* a delivery was updated to another status and a receipt was validated, and
\* both carry the codes of their creation
C21_Witness ==
    /\ lastOp.op = "updateDelivery" /\ lastOp.result = "ok"
    /\ deliveries[lastOp.id].status = "ready"
    /\ deliveries[lastOp.id].deliveryId = [prefix |-> "DEL-", digits |-> <<0, 0, 1>>]
    /\ 1 \in DOMAIN receipts /\ receipts[1].status = "done"
    /\ receipts[1].receiptId = [prefix |-> "RCP-", digits |-> <<0, 0, 1>>]
    /\ \E p \in Products : stock[p] # InitialStock

(* ------------------ claims on create and update (SpecEdit) ------------- *)

\* C11: after a successful update the stored item rows of the document are
\* exactly the items of the request (which the response echoes), in order
\* and number: no earlier row remains.
C11_UpdateReplacesLines ==
    [][/\ (lastOp'.op = "updateReceipt" /\ lastOp'.result = "ok")
          => receipt_items'[lastOp'.id] = lastOp'.items
       /\ (lastOp'.op = "updateDelivery" /\ lastOp'.result = "ok")
          => delivery_items'[lastOp'.id] = lastOp'.items]_vars

\* an update left a delivery with exactly one line
C11_Witness ==
    /\ lastOp.op = "updateDelivery" /\ lastOp.result = "ok"
    /\ Len(lastOp.items) = 1
    /\ delivery_items[lastOp.id] = lastOp.items

\* C12: a create or update whose k-th line insert fails leaves the document
\* headers and the item rows of both tables as they were before the call.
C12_FailedEditRollsBack ==
    [][(/\ lastOp'.result = "Failed"
        /\ lastOp'.op \in {"createReceipt", "updateReceipt",
                            "createDelivery", "updateDelivery"})
       => (/\ receipts' = receipts /\ receipt_items' = receipt_items
           /\ deliveries' = deliveries /\ delivery_items' = delivery_items
           /\ stock' = stock)]_vars

\* an update of a delivery failed at its second line and the delivery still
\* has its earlier lines
C12_Witness ==
    /\ lastOp.op = "updateDelivery" /\ lastOp.result = "Failed"
    /\ lastOp.failedAt = 2
    /\ delivery_items[lastOp.id] # <<>>

(* ------------- concurrent create requests (SpecTxCreate) --------------- *)
Tables == {"receipts", "deliveries"}

\* the committed rows of a document table
Committed(table) == IF table = "receipts" THEN receipts ELSE deliveries

\* a count that also sees the rows other open transactions have inserted
CountRowsDirty(c, table) ==
    Cardinality(DOMAIN Committed(table))
    + Cardinality({d \in Procs \ {c} : tx[d].table = table /\ tx[d].id # 0})

\* SELECT COUNT(*) FROM receipts: the committed rows (the transaction has
\* inserted none itself when it counts)
CountRows(c, table) == Cardinality(DOMAIN Committed(table))

\* the code computed from the count the transaction read
CodeOf(c) == IF tx[c].table = "receipts" THEN ReceiptCode(tx[c].count)
             ELSE DeliveryCode(tx[c].count)

\* const client = await pool.connect(); await client.query('BEGIN')
CreateBegin(c, table, status, items) ==
    /\ tx[c].pc = "idle"
    /\ tx' = [tx EXCEPT ![c] =
                [NoTx EXCEPT !.pc = "count", !.table = table, !.op = "create",
                             !.req = [status |-> status, items |-> items]]]
    /\ UNCHANGED <<dbVars, lastOp, form>>

\* const countResult = await client.query('SELECT COUNT(*) FROM receipts')
SelectCount(c) ==
    /\ tx[c].pc = "count"
    /\ tx' = [tx EXCEPT ![c] =
                [@ EXCEPT !.count = CountRows(c, tx[c].table),
                          !.pc = "insertHeader"]]
    /\ UNCHANGED <<dbVars, lastOp, form>>

\* INSERT INTO receipts (...) RETURNING *: the serial id is taken at once,
\* the row stays with the transaction until it commits
InsertHeader(c) ==
    /\ tx[c].pc = "insertHeader"
    /\ IF tx[c].table = "receipts"
       THEN /\ tx' = [tx EXCEPT ![c] =
                       [@ EXCEPT !.id = nextReceiptId, !.i = 1,
                                 !.pc = IF tx[c].req.items = <<>>
                                        THEN "commitCreate" ELSE "insertItem"]]
            /\ nextReceiptId' = nextReceiptId + 1
            /\ UNCHANGED nextDeliveryId
       ELSE /\ tx' = [tx EXCEPT ![c] =
                       [@ EXCEPT !.id = nextDeliveryId, !.i = 1,
                                 !.pc = IF tx[c].req.items = <<>>
                                        THEN "commitCreate" ELSE "insertItem"]]
            /\ nextDeliveryId' = nextDeliveryId + 1
            /\ UNCHANGED nextReceiptId
    /\ UNCHANGED <<stock, receipts, receipt_items, deliveries, delivery_items,
                   lastOp, form>>

\* one pass of the loop: INSERT INTO receipt_items (...) VALUES ($1, $2, $3)
InsertItem(c) ==
    /\ tx[c].pc = "insertItem"
    /\ tx' = [tx EXCEPT ![c] =
                [@ EXCEPT !.rows = Append(@, tx[c].req.items[tx[c].i]),
                          !.i = @ + 1,
                          !.pc = IF tx[c].i = Len(tx[c].req.items)
                                 THEN "commitCreate" ELSE "insertItem"]]
    /\ UNCHANGED <<dbVars, lastOp, form>>

\* COMMIT, then res.status(201).json(...) and client.release()
CommitCreate(c) ==
    /\ tx[c].pc = "commitCreate"
    /\ IF tx[c].table = "receipts"
       THEN /\ receipts' = receipts @@ (tx[c].id :>
                              [receiptId |-> CodeOf(c), status |-> tx[c].req.status])
            /\ receipt_items' = receipt_items @@ (tx[c].id :> tx[c].rows)
            /\ UNCHANGED <<deliveries, delivery_items>>
       ELSE /\ deliveries' = deliveries @@ (tx[c].id :>
                              [deliveryId |-> CodeOf(c), status |-> tx[c].req.status])
            /\ delivery_items' = delivery_items @@ (tx[c].id :> tx[c].rows)
            /\ UNCHANGED <<receipts, receipt_items>>
    /\ tx' = [tx EXCEPT ![c] = Released(Ended([@ EXCEPT !.result = "ok"]))]
    /\ UNCHANGED <<stock, nextReceiptId, nextDeliveryId, lastOp, form>>

NextTxCreate ==
    \/ \E c \in Procs, table \in Tables, st \in EditStatuses, items \in ShortLineSets :
          CreateBegin(c, table, st, items)
    \/ \E c \in Procs : SelectCount(c)
    \/ \E c \in Procs : InsertHeader(c)
    \/ \E c \in Procs : InsertItem(c)
    \/ \E c \in Procs : CommitCreate(c)

SpecTxCreate == Init /\ [][NextTxCreate]_vars

\* the create of process c has read the row count and has not committed
CountedNotCommitted(c) == tx[c].pc \in {"insertHeader", "insertItem", "commitCreate"}

\* C15: two concurrent creates of one document type that have both read the
\* row count while neither has committed read the same count and compute the
\* same code; the interleaving exists (witness) and ends with two documents
\* carrying one code.
C15_ConcurrentCreatesSameCode ==
    \A c, d \in Procs :
        (c # d /\ tx[c].table = tx[d].table
         /\ CountedNotCommitted(c) /\ CountedNotCommitted(d))
        => (tx[c].count = tx[d].count /\ CodeOf(c) = CodeOf(d))

\* both creates answered 201 and the two receipts carry the same code
C15_Witness ==
    /\ \A c \in Procs : tx[c].pc = "done" /\ tx[c].result = "ok"
                          /\ tx[c].table = "receipts"
    /\ DOMAIN receipts = {1, 2}
    /\ receipts[1].receiptId = receipts[2].receiptId
    /\ receipt_items[1] # <<>>

(* -------- an update concurrent with a validate (SpecTxEdit) ------------ *)
\* router.put('/receipts/:id'): pool.connect() and BEGIN
UpdateBegin(c, id, status, items) ==
    /\ tx[c].pc = "idle"
    /\ tx' = [tx EXCEPT ![c] =
                [NoTx EXCEPT !.pc = "updateHeader", !.id = id, !.op = "update",
                             !.req = [status |-> status, items |-> items]]]
    /\ UNCHANGED <<dbVars, lastOp, form>>

\* UPDATE receipts SET supplier = $1, date = $2, status = $3 WHERE id = $4
\* RETURNING *: waits for a transaction that has written the row, then
\* locks it; no row found is the 404 after ROLLBACK
UpdateHeader(c) ==
    /\ tx[c].pc = "updateHeader"
    /\ \A d \in Procs \ {c} : ~(tx[d].statusW /\ tx[d].id = tx[c].id)
    /\ tx' = [tx EXCEPT ![c] =
                IF tx[c].id \notin DOMAIN receipts
                THEN [@ EXCEPT !.pc = "rollback", !.result = "NotFound"]
                ELSE [@ EXCEPT !.statusW = TRUE, !.pc = "deleteItems"]]
    /\ UNCHANGED <<dbVars, lastOp, form>>

\* DELETE FROM receipt_items WHERE receipt_id = $1
DeleteItemsTx(c) ==
    /\ tx[c].pc = "deleteItems"
    /\ tx' = [tx EXCEPT ![c] =
                [@ EXCEPT !.rows = DeleteItems(receipt_items[tx[c].id]), !.i = 1,
                          !.pc = IF tx[c].req.items = <<>>
                                 THEN "commitUpdate" ELSE "insertUpdateItem"]]
    /\ UNCHANGED <<dbVars, lastOp, form>>

\* one pass of the loop: INSERT INTO receipt_items (...) VALUES ($1, $2, $3)
InsertUpdateItem(c) ==
    /\ tx[c].pc = "insertUpdateItem"
    /\ tx' = [tx EXCEPT ![c] =
                [@ EXCEPT !.rows = Append(@, tx[c].req.items[tx[c].i]),
                          !.i = @ + 1,
                          !.pc = IF tx[c].i = Len(tx[c].req.items)
                                 THEN "commitUpdate" ELSE "insertUpdateItem"]]
    /\ UNCHANGED <<dbVars, lastOp, form>>

\* COMMIT, then res.json(...) and client.release()
CommitUpdate(c) ==
    /\ tx[c].pc = "commitUpdate"
    /\ receipts' = [receipts EXCEPT ![tx[c].id].status = tx[c].req.status]
    /\ receipt_items' = [receipt_items EXCEPT ![tx[c].id] = tx[c].rows]
    /\ tx' = [tx EXCEPT ![c] = Released(Ended([@ EXCEPT !.result = "ok",
                                                        !.statusW = FALSE]))]
    /\ UNCHANGED <<stock, deliveries, delivery_items,
                   nextReceiptId, nextDeliveryId, lastOp, form>>

NextTxEdit ==
    \/ \E c \in Procs, id \in 1..(MaxId + 1) : TxBegin(c, id)
    \/ \E c \in Procs : SelectReceipt(c)
    \/ \E c \in Procs : SelectItems(c)
    \/ \E c \in Procs : UpdateProductStock(c)
    \/ \E c \in Procs : UpdateReceiptStatus(c)
    \/ \E c \in Procs : Commit(c)
    \/ \E c \in Procs : RollbackTx(c)
    \/ \E c \in Procs, id \in 1..(MaxId + 1), st \in EditStatuses,
          items \in ShortLineSets : UpdateBegin(c, id, st, items)
    \/ \E c \in Procs : UpdateHeader(c)
    \/ \E c \in Procs : DeleteItemsTx(c)
    \/ \E c \in Procs : InsertUpdateItem(c)
    \/ \E c \in Procs : CommitUpdate(c)

SpecTxEdit == InitTx /\ [][NextTxEdit]_vars

\* every quantity of the rows is positive
AllPositive(rows) == \A k \in 1..Len(rows) : rows[k].quantity > 0

\* C20: when a validate and an update of one receipt have both answered
\* success and the receipt is 'done' by the validate (the update asked for
\* another status), the lines the validate added to stock are the lines
\* the receipt holds. Stated for positive quantities and a validate that
\* found lines to apply.
C20_DoneReceiptHoldsAppliedLines ==
    \A v, u \in Procs :
        (/\ tx[v].op = "validate" /\ tx[v].pc = "done" /\ tx[v].result = "ok"
         /\ tx[u].op = "update" /\ tx[u].pc = "done" /\ tx[u].result = "ok"
         /\ tx[u].id = tx[v].id /\ tx[u].req.status # "done"
         /\ receipts[tx[v].id].status = "done"
         /\ tx[v].rows # <<>> /\ AllPositive(tx[v].rows)
         /\ AllPositive(tx[u].req.items))
        => tx[v].rows = receipt_items[tx[v].id]

(* -------- validates of different receipts, concurrently (SpecTxTwo) ---- *)
\* the receipts that exist before the two requests arrive
TwoIds == 1..(MaxId + 1)

InitTwo ==
    /\ stock = [p \in Products |-> InitialStock]
    /\ \E st \in [TwoIds -> EditStatuses], items \in [TwoIds -> LineSets] :
          /\ receipts = [id \in TwoIds |->
                           [receiptId |-> ReceiptCode(id - 1), status |-> st[id]]]
          /\ receipt_items = items
    /\ deliveries = <<>>
    /\ delivery_items = <<>>
    /\ nextReceiptId = MaxId + 2
    /\ nextDeliveryId = 1
    /\ lastOp = Op("none", 0, "none", 0)
    /\ tx = [c \in Procs |-> NoTx]
    /\ form = NoForm

\* the product whose row the UPDATE products of process c is about to write
Wanted(c) == tx[c].rows[tx[c].i].productId

\* process c waits for a row of process d
WaitsFor(c, d) ==
    /\ tx[c].pc = "updateStock"
    /\ Wanted(c) \in tx[d].wrote

\* two UPDATE products wait for each other's row: the store ends the wait of
\* one of them with an error, which takes the handler to its catch block
DeadlockDetected(c) ==
    /\ \E d \in Procs \ {c} : WaitsFor(c, d) /\ WaitsFor(d, c)
    /\ tx' = [tx EXCEPT ![c] = [@ EXCEPT !.pc = "rollback", !.result = "Failed"]]
    /\ UNCHANGED <<dbVars, lastOp, form>>

NextTwo ==
    \/ \E c \in Procs, id \in TwoIds : TxBegin(c, id)
    \/ \E c \in Procs : SelectReceipt(c)
    \/ \E c \in Procs : SelectItems(c)
    \/ \E c \in Procs : UpdateProductStock(c)
    \/ \E c \in Procs : DeadlockDetected(c)
    \/ \E c \in Procs : UpdateReceiptStatus(c)
    \/ \E c \in Procs : Commit(c)
    \/ \E c \in Procs : RollbackTx(c)

SpecTxTwo == InitTwo /\ [][NextTwo]_vars

\* C26: when the validates of two different receipts have both answered
\* success, every product's stock is its initial stock plus the quantities
\* the lines of both receipts hold for it.
C26_NoLostIncrement ==
    \A c, d \in Procs :
        (/\ c # d /\ tx[c].id # tx[d].id
         /\ tx[c].pc = "done" /\ tx[c].result = "ok"
         /\ tx[d].pc = "done" /\ tx[d].result = "ok")
        => \A p \in Products :
              stock[p] = InitialStock + SumQuantity(receipt_items[tx[c].id], p)
                                      + SumQuantity(receipt_items[tx[d].id], p)

\* receipts 1 and 2, each with a line of quantity 2 of product 1, were
\* validated by the two processes and product 1 has both quantities
C26_Witness ==
    /\ \A c \in Procs : tx[c].pc = "done" /\ tx[c].result = "ok" /\ tx[c].id = c
    /\ \A id \in {1, 2} : \E k \in 1..Len(receipt_items[id]) :
          receipt_items[id][k] = [productId |-> 1, quantity |-> 2]
    /\ stock[1] >= InitialStock + 4

(* -------- how every transaction ends (SpecTxEnd) ----------------------- *)
\* a receipt exists before the requests arrive
InitEnd ==
    /\ stock = [p \in Products |-> InitialStock]
    /\ \E st \in EditStatuses, items \in ShortLineSets :
          /\ receipts = (1 :> [receiptId |-> ReceiptCode(0), status |-> st])
          /\ receipt_items = (1 :> items)
    /\ deliveries = <<>>
    /\ delivery_items = <<>>
    /\ nextReceiptId = 2
    /\ nextDeliveryId = 1
    /\ lastOp = Op("none", 0, "none", 0)
    /\ tx = [c \in Procs |-> NoTx]
    /\ form = NoForm

\* the positions at which a handler awaits a query of its transaction
QueryPcs == {"selectReceipt", "selectItems", "updateStock", "updateStatus",
             "commit", "count", "insertHeader", "insertItem", "commitCreate",
             "updateHeader", "deleteItems", "insertUpdateItem", "commitUpdate"}

\* the awaited query throws: catch (error) { await client.query('ROLLBACK') }
QueryFails(c) ==
    /\ tx[c].pc \in QueryPcs
    /\ tx' = [tx EXCEPT ![c] = [@ EXCEPT !.pc = "rollback", !.result = "Failed"]]
    /\ UNCHANGED <<dbVars, lastOp, form>>

\* a request arrives: validate, update or create
BeginTx(c) ==
    \/ \E id \in 1..(MaxId + 1) : TxBegin(c, id)
    \/ \E id \in 1..(MaxId + 1), items \in ShortLineSets :
          UpdateBegin(c, id, "draft", items)
    \/ \E table \in Tables, items \in ShortLineSets :
          CreateBegin(c, table, "draft", items)

\* the next statement of the handler of process c is answered
StepTx(c) ==
    \/ SelectReceipt(c)
    \/ SelectItems(c)
    \/ UpdateProductStock(c)
    \/ UpdateReceiptStatus(c)
    \/ Commit(c)
    \/ RollbackTx(c)
    \/ SelectCount(c)
    \/ InsertHeader(c)
    \/ InsertItem(c)
    \/ CommitCreate(c)
    \/ UpdateHeader(c)
    \/ DeleteItemsTx(c)
    \/ InsertUpdateItem(c)
    \/ CommitUpdate(c)

NextEnd ==
    \/ \E c \in Procs : BeginTx(c)
    \/ \E c \in Procs : StepTx(c)
    \/ \E c \in Procs : QueryFails(c)

\* the store answers every statement that is not waiting for a row lock,
\* and the handler goes on when it is answered
SpecTxEnd == InitEnd /\ [][NextEnd]_vars /\ \A c \in Procs : WF_vars(StepTx(c))

\* C27: every transaction a create, update or validate has begun comes to
\* its end: by then one COMMIT or ROLLBACK has ended it and the client was
\* released once; never are there two of either, and never a release before
\* the transaction is ended.
C27_EveryTransactionEnds ==
    /\ [](\A c \in Procs :
            /\ tx[c].ends <= 1 /\ tx[c].released <= 1
            /\ tx[c].released = 1 => tx[c].ends = 1
            /\ tx[c].pc = "done" <=> tx[c].released = 1
            /\ tx[c].pc = "idle" => tx[c].ends = 0)
    /\ \A c \in Procs : (tx[c].pc # "idle") ~> (tx[c].pc = "done")

\* an update whose second statement threw was rolled back, and a validate
\* of the same receipt was committed; both clients are released
C27_Witness ==
    /\ \A c \in Procs : tx[c].pc = "done" /\ tx[c].ends = 1 /\ tx[c].released = 1
    /\ \E c \in Procs : tx[c].op = "update" /\ tx[c].result = "Failed"
    /\ \E c \in Procs : tx[c].op = "validate" /\ tx[c].result = "ok"

(* ------------------ claims on document codes (SpecCodes) --------------- *)
RECURSIVE CodeNumber(_)
\* the number a code's digits spell
CodeNumber(digits) ==
    IF digits = <<>> THEN 0
    ELSE 10 * CodeNumber(SubSeq(digits, 1, Len(digits) - 1)) + digits[Len(digits)]

\* C13: while no document of a type has been deleted, the n-th document
\* created carries the code PREFIX-00n: RCP-001, RCP-002, RCP-003 for
\* receipts and DEL-001, ... for deliveries.
C13_SequentialCodes ==
    /\ (DOMAIN receipts = 1..(nextReceiptId - 1))
       => \A id \in DOMAIN receipts :
             receipts[id].receiptId = [prefix |-> "RCP-", digits |-> <<0, 0, id>>]
    /\ (DOMAIN deliveries = 1..(nextDeliveryId - 1))
       => \A id \in DOMAIN deliveries :
             deliveries[id].deliveryId = [prefix |-> "DEL-", digits |-> <<0, 0, id>>]

\* three receipts and two deliveries were created and none deleted
C13_Witness ==
    /\ DOMAIN receipts = 1..3
    /\ receipts[3].receiptId = [prefix |-> "RCP-", digits |-> <<0, 0, 3>>]
    /\ DOMAIN deliveries = 1..2
    /\ deliveries[2].deliveryId = [prefix |-> "DEL-", digits |-> <<0, 0, 2>>]

\* C14: of two existing documents of one type the one created later carries
\* the greater code, so no two of them carry the same code.
C14_CodesUniqueIncreasing ==
    /\ \A i, j \in DOMAIN receipts :
          i < j => CodeNumber(receipts[i].receiptId.digits)
                   < CodeNumber(receipts[j].receiptId.digits)
    /\ \A i, j \in DOMAIN deliveries :
          i < j => CodeNumber(deliveries[i].deliveryId.digits)
                   < CodeNumber(deliveries[j].deliveryId.digits)

(* ---------------- the delivery form (Deliveries.jsx, SpecForm) --------- *)
\* what the quantity field and the product select can hold when Add is
\* clicked; "9" is the id of a product the store lists no more
QuantityInputs == {"", "abc", "0", "-1", "1", "2"}
ProductInputs == {"", "1", "2", "9"}

\* the strings JavaScript reads as a number
NumericStrings == {"0", "-1", "1", "2"}

\* isNaN(s): Number(s) is NaN; Number('') is 0
IsNaN(s) == s \notin NumericStrings \cup {""}

\* parseFloat(s) of a numeric string
ParseFloat(s) == CASE s = "0" -> 0 [] s = "-1" -> -1 [] s = "1" -> 1 [] s = "2" -> 2

\* parseInt(s) of a product id; 0 stands for NaN, which is no product's id
ParseInt(s) == CASE s = "1" -> 1 [] s = "2" -> 2 [] s = "9" -> 9 [] OTHER -> 0

\* products.filter((p) => p.stock > 0)
AvailableProducts == {p \in Products : stock[p] > 0}

\* a check that lets zero and negative quantities through
InvalidItemFormLax(f) ==
    \/ f.productId = ""
    \/ f.quantity = ""
    \/ IsNaN(f.quantity)

\* the check of line 75 that sends 'Please select a product and enter a
\* valid quantity'
InvalidItemForm(f) ==
    \/ f.productId = ""
    \/ f.quantity = ""
    \/ IsNaN(f.quantity)
    \/ ParseFloat(f.quantity) <= 0

\* an availability check that looks at the requested quantity alone
ExistingQuantityNone(items, p) == 0

\* formData.items.filter(item => item.productId === id).reduce(sum + quantity)
ExistingQuantity(items, p) == SumQuantity(items, p)

\* an append that adds the quantity to the product's first line, if any
AppendItemMerging(items, item) ==
    IF \E k \in 1..Len(items) : items[k].productId = item.productId
    THEN LET k == CHOOSE j \in 1..Len(items) : items[j].productId = item.productId
         IN [items EXCEPT ![k].quantity = @ + item.quantity]
    ELSE Append(items, item)

\* items: [...formData.items, { productId, quantity }]
AppendItem(items, item) == Append(items, item)

\* a removal of every line of the product of the line at index
RemoveItemProduct(items, index) ==
    SelectSeq(items, LAMBDA item : item.productId # items[index].productId)

\* formData.items.filter((_, i) => i !== index), index counted from 1
RemoveItem(items, index) ==
    SubSeq(items, 1, index - 1) \o SubSeq(items, index + 1, Len(items))

\* Total Items: {formData.items.length}
FormTotalItems(items) == Len(items)

\* the form is opened for a new delivery on products whose stock stays as it is
InitForm ==
    /\ stock \in [Products -> 0..MaxFormStock]
    /\ receipts = <<>>
    /\ receipt_items = <<>>
    /\ deliveries = <<>>
    /\ delivery_items = <<>>
    /\ nextReceiptId = 1
    /\ nextDeliveryId = 1
    /\ lastOp = Op("none", 0, "none", 0)
    /\ tx = [c \in Procs |-> NoTx]
    /\ form = NoForm

\* onChange of the product select: the options are the available products
\* (and one the store has dropped since they were drawn)
SelectProduct(s) ==
    /\ s = "" \/ ParseInt(s) \in AvailableProducts \/ ParseInt(s) \notin Products
    /\ form' = [form EXCEPT !.productId = s,
                            !.error = IF ParseInt(s) \in Products THEN "" ELSE @]
    /\ lastOp' = Op("selectProduct", ParseInt(s), "ok", 0)
    /\ UNCHANGED <<dbVars, tx>>

\* onChange of the quantity field
TypeQuantity(s) ==
    /\ form' = [form EXCEPT !.quantity = s]
    /\ lastOp' = Op("typeQuantity", 0, "ok", 0)
    /\ UNCHANGED <<dbVars, tx>>

\* handleAddItem
HandleAddItem ==
    /\ IF InvalidItemForm(form)
       THEN /\ form' = [form EXCEPT !.error = "invalid"]
            /\ lastOp' = Op("addItem", ParseInt(form.productId), "Invalid", 0)
       ELSE LET id == ParseInt(form.productId)
                requestedQuantity == ParseFloat(form.quantity)
            IN IF id \notin Products
               THEN /\ UNCHANGED form
                    /\ lastOp' = Op("addItem", id, "NoProduct", 0)
               ELSE IF ExistingQuantity(form.items, id) + requestedQuantity > stock[id]
               THEN /\ form' = [form EXCEPT !.error = "insufficient"]
                    /\ lastOp' = Op("addItem", id, "InsufficientStock", 0)
                                  @@ [quantity |-> requestedQuantity]
               ELSE /\ form' = [form EXCEPT
                                  !.items = AppendItem(@, [productId |-> id,
                                                           quantity |-> requestedQuantity]),
                                  !.productId = "", !.quantity = "", !.error = ""]
                    /\ lastOp' = Op("addItem", id, "ok", 0)
                                  @@ [quantity |-> requestedQuantity]
    /\ UNCHANGED <<dbVars, tx>>

\* handleRemoveItem(index), index counted from 1 here
HandleRemoveItem(index) ==
    /\ index \in 1..Len(form.items)
    /\ form' = [form EXCEPT !.items = RemoveItem(@, index)]
    /\ lastOp' = Op("removeItem", index, "ok", 0)
    /\ UNCHANGED <<dbVars, tx>>

NextForm ==
    \/ \E s \in ProductInputs : SelectProduct(s)
    \/ \E s \in QuantityInputs : TypeQuantity(s)
    \/ HandleAddItem
    \/ \E index \in 1..(2 * MaxFormStock) : HandleRemoveItem(index)

SpecForm == InitForm /\ [][NextForm]_vars

(* ---------------- submitting the delivery form (SpecSubmit) ------------ *)
\* what the customer field and the date field can hold
CustomerInputs == {"", " ", " Acme "}
DateInputs == {"", Today}

\* s.trim()
Trim(s) == CASE s = " " -> "" [] s = " Acme " -> "Acme" [] OTHER -> s

\* the checks of handleSubmit without the one on the lines
SubmitErrorsHeaderOnly(f) ==
    {k \in {"customer", "date"} :
        \/ k = "customer" /\ Trim(f.customer) = ""
        \/ k = "date" /\ f.date = ""}

\* the keys of newErrors: customer, date, items
SubmitErrors(f) ==
    {k \in {"customer", "date", "items"} :
        \/ k = "customer" /\ Trim(f.customer) = ""
        \/ k = "date" /\ f.date = ""
        \/ k = "items" /\ Len(f.items) = 0}

\* a saved delivery is listed, the products are in stock, and the form is as
\* useState leaves it
InitSubmit ==
    /\ stock = [p \in Products |-> MaxFormStock]
    /\ receipts = <<>>
    /\ receipt_items = <<>>
    /\ deliveries = (1 :> [deliveryId |-> DeliveryCode(0), status |-> "waiting"])
    /\ \E items \in ShortLineSets : delivery_items = (1 :> items)
    /\ nextReceiptId = 1
    /\ nextDeliveryId = 2
    /\ lastOp = Op("none", 0, "none", 0)
    /\ tx = [c \in Procs |-> NoTx]
    /\ form = NoForm

\* handleOpenModal(delivery): id = 0 is the button 'New Delivery'; a saved
\* delivery comes with the customer and date it was saved with
HandleOpenModal(id) ==
    /\ id = 0 \/ id \in DOMAIN deliveries
    /\ form' = IF id = 0 THEN [NoForm EXCEPT !.sent = form.sent]
               ELSE [NoForm EXCEPT !.customer = "Acme", !.date = Today,
                                   !.items = delivery_items[id],
                                   !.selected = id, !.sent = form.sent]
    /\ lastOp' = Op("openModal", id, "ok", 0)
    /\ UNCHANGED <<dbVars, tx>>

\* onChange of the customer field
TypeCustomer(s) ==
    /\ form' = [form EXCEPT !.customer = s, !.errors = @ \ {"customer"}]
    /\ lastOp' = Op("typeCustomer", 0, "ok", 0)
    /\ UNCHANGED <<dbVars, tx>>

\* onChange of the date field
TypeDate(s) ==
    /\ form' = [form EXCEPT !.date = s, !.errors = @ \ {"date"}]
    /\ lastOp' = Op("typeDate", 0, "ok", 0)
    /\ UNCHANGED <<dbVars, tx>>

\* handleSubmit: setErrors(newErrors) and return, or addDelivery /
\* updateDelivery with the delivery and handleCloseModal()
HandleSubmit ==
    /\ IF SubmitErrors(form) # {}
       THEN /\ form' = [form EXCEPT !.errors = SubmitErrors(form), !.error = ""]
            /\ lastOp' = Op("submit", form.selected, "InvalidInput", 0)
       ELSE LET call == IF form.selected # 0 THEN "updateDelivery" ELSE "addDelivery"
            IN /\ form' = [NoForm EXCEPT !.sent = call]
               /\ lastOp' = Op("submit", form.selected, call, 0)
                             @@ [customer |-> Trim(form.customer),
                                 date |-> form.date, items |-> form.items,
                                 status |-> IF form.selected # 0
                                            THEN deliveries[form.selected].status
                                            ELSE "draft"]
    /\ UNCHANGED <<dbVars, tx>>

\* the lines are built from one product and one quantity here
NextSubmit ==
    \/ \E s \in {"", "1"} : SelectProduct(s)
    \/ \E s \in {"", "1"} : TypeQuantity(s)
    \/ HandleAddItem
    \/ \E index \in 1..(2 * MaxFormStock) : HandleRemoveItem(index)
    \/ \E id \in 0..MaxId : HandleOpenModal(id)
    \/ \E s \in CustomerInputs : TypeCustomer(s)
    \/ \E s \in DateInputs : TypeDate(s)
    \/ HandleSubmit

SpecSubmit == InitSubmit /\ [][NextSubmit]_vars

\* C25: a submit of a form whose customer is blank, whose date is empty or
\* which has no line calls neither addDelivery nor updateDelivery, and the
\* errors it leaves name exactly the fields that are missing.
C25_InvalidSubmitSendsNothing ==
    [][(/\ lastOp'.op = "submit"
        /\ \/ form.customer \in {"", " "}
           \/ form.date = ""
           \/ form.items = <<>>)
       => /\ lastOp'.result = "InvalidInput"
          /\ form'.sent = form.sent
          /\ form'.items = form.items
          /\ ("customer" \in form'.errors) <=> (form.customer \in {"", " "})
          /\ ("date" \in form'.errors) <=> (form.date = "")
          /\ ("items" \in form'.errors) <=> (form.items = <<>>)]_vars

\* a new delivery with a customer and a date but no line was submitted:
\* only the lines are reported, and nothing was sent
C25_Witness ==
    /\ lastOp.op = "submit" /\ lastOp.result = "InvalidInput"
    /\ form.selected = 0 /\ form.sent = "none"
    /\ form.customer = " Acme " /\ form.date = Today /\ form.items = <<>>
    /\ form.errors = {"items"}

\* C16: the total the form shows under the added items is the sum of their
\* quantities, as the totalItems of the list, create and update responses
\* is: one line of quantity 2 shows 2.
C16_TotalItemsIsSum ==
    form.items # <<>> => FormTotalItems(form.items) = TotalItems(form.items)

\* C17: with the stock held fixed, whatever lines are added and removed,
\* no product's lines in the form sum to more than its stock; an add whose
\* quantity plus the quantity already in the form exceeds the stock, and only
\* such an add of a valid entry, is rejected, and leaves the lines as they were.
C17_FormWithinStock ==
    /\ [](\A p \in Products : SumQuantity(form.items, p) <= stock[p])
    /\ [][(lastOp'.op = "addItem" /\ lastOp'.result \in {"ok", "InsufficientStock"})
           => /\ lastOp'.result = "InsufficientStock"
                 <=> SumQuantity(form.items, lastOp'.id) + lastOp'.quantity
                     > stock[lastOp'.id]
              /\ lastOp'.result = "InsufficientStock"
                 => form'.items = form.items]_vars

\* an add was rejected for the lines already in the form: alone its quantity
\* is in stock
C17_Witness ==
    /\ lastOp.op = "addItem" /\ lastOp.result = "InsufficientStock"
    /\ lastOp.quantity <= stock[lastOp.id]
    /\ SumQuantity(form.items, lastOp.id) > 0
    /\ form.error = "insufficient"

\* C22: an add with no product selected, with a product id the store does
\* not know, or with a quantity that is missing, not a number, zero or
\* negative leaves the lines of the form as they were.
C22_InvalidAddKeepsLines ==
    [][(/\ lastOp'.op = "addItem"
        /\ \/ form.productId = ""
           \/ form.productId \notin {"1", "2"}
           \/ form.quantity \in {"", "abc", "0", "-1"})
       => form'.items = form.items]_vars

\* with a line in the form, an add for a product the store does not know
\* returned without a word
C22_Witness ==
    /\ lastOp.op = "addItem" /\ lastOp.result = "NoProduct"
    /\ form.items # <<>>
    /\ form.productId = "9" /\ form.quantity = "2"

\* C23: a successful add puts one entry, the selected product with the
\* typed quantity, behind the lines of the form and leaves those as they
\* were, also when the product has lines already.
C23_AddAppendsOneLine ==
    [][(lastOp'.op = "addItem" /\ lastOp'.result = "ok")
       => /\ Len(form'.items) = Len(form.items) + 1
          /\ \A k \in 1..Len(form.items) : form'.items[k] = form.items[k]
          /\ form'.items[Len(form'.items)] =
                [productId |-> ParseInt(form.productId),
                 quantity |-> ParseFloat(form.quantity)]]_vars

\* product 1 was added twice with quantity 1 and has two lines
C23_Witness ==
    /\ lastOp.op = "addItem" /\ lastOp.result = "ok"
    /\ form.items = <<[productId |-> 1, quantity |-> 1],
                      [productId |-> 1, quantity |-> 1]>>

\* C24: a remove takes the entry at its index out of the lines of the form,
\* keeps the entries before it and moves those behind it up by one in their
\* order, and leaves every product's stock as it was.
C24_RemoveTakesOneLine ==
    [][lastOp'.op = "removeItem"
       => /\ Len(form'.items) = Len(form.items) - 1
          /\ \A k \in 1..Len(form'.items) :
                form'.items[k] = IF k < lastOp'.id THEN form.items[k]
                                 ELSE form.items[k + 1]
          /\ stock' = stock]_vars

\* the second of three lines was removed; the first and the last stay
C24_Witness ==
    /\ lastOp.op = "removeItem" /\ lastOp.id = 2
    /\ form.items = <<[productId |-> 1, quantity |-> 1],
                      [productId |-> 2, quantity |-> 2]>>

=============================================================================
